---- MODULE Spec2Model ----
(***************************************************************************)
(* Model of src/main.py, a command-line contact list.  The program is one  *)
(* menu loop over a global list of contact dictionaries; every input()     *)
(* call is a step of the model, and every print() sets `message` (the      *)
(* advisory line) or `table` (the tabulate output).                        *)
(*                                                                         *)
(* A Python str is modelled as a sequence of one-character strings, so     *)
(* "ab cd" is <<"a","b"," ","c","d">>.  The token "sup2" stands for the    *)
(* character U+00B2 (superscript two): str.isdigit() accepts it and int()  *)
(* raises ValueError on it.                                                *)
(***************************************************************************)
EXTENDS Integers, Sequences, FiniteSets, TLC

VARIABLES
    pc,                \* position of the program in the menu loop
    contact_list,      \* the global list of contact dictionaries
    raw_phones,        \* history: the argument of format_phone_number that produced each Phone
    selected_option,   \* last string read at the menu prompt
    message,           \* last advisory line printed
    table,             \* rows of the table printed for the current operation
    favorites,         \* list_favorites' local list (0-based store indices of the objects)
    contact_name, contact_phone, contact_email, contact_favorite,   \* locals of menu option 1
    choice,            \* last string read at the edit / delete position prompt, stripped
    index,             \* int(choice) - 1
    new_name, new_phone, new_email, new_favorite                    \* locals of edit_contact

vars == <<pc, contact_list, raw_phones, selected_option, message, table, favorites,
          contact_name, contact_phone, contact_email, contact_favorite,
          choice, index, new_name, new_phone, new_email, new_favorite>>

add_locals == <<contact_name, contact_phone, contact_email, contact_favorite>>
edit_locals == <<new_name, new_phone, new_email, new_favorite>>

----------------------------------------------------------------------------
(* Bounds *)

MaxContacts == 2
MaxNameLen == 7

----------------------------------------------------------------------------
(* Python str methods *)

\* the whitespace of the model's alphabet
Whitespace == {" "}

\* the cased letters of the model's alphabet, lower and upper
CasePairs ==
    { <<"a","A">>, <<"b","B">>, <<"c","C">>, <<"d","D">>, <<"e","E">>,
      <<"n","N">>, <<"o","O">>, <<"q","Q">>, <<"s","S">>, <<"x","X">>,
      <<"y","Y">> }

IsCased(c) == \E p \in CasePairs : c = p[1] \/ c = p[2]

lower_char(c) ==
    IF \E p \in CasePairs : p[2] = c
    THEN (CHOOSE p \in CasePairs : p[2] = c)[1]
    ELSE c

upper_char(c) ==
    IF \E p \in CasePairs : p[1] = c
    THEN (CHOOSE p \in CasePairs : p[1] = c)[2]
    ELSE c

\* str.lower()
lower(s) == [i \in 1..Len(s) |-> lower_char(s[i])]

\* str.title(): a cased character is upper-cased when the character before
\* it is not cased (or there is none) and lower-cased otherwise.
title(s) ==
    [i \in 1..Len(s) |->
        IF IsCased(s[i])
        THEN IF i = 1 \/ ~IsCased(s[i-1]) THEN upper_char(s[i]) ELSE lower_char(s[i])
        ELSE s[i]]

\* str.strip()
strip(s) ==
    LET keep == {i \in 1..Len(s) : s[i] \notin Whitespace}
    IN  IF keep = {} THEN <<>>
        ELSE LET first == CHOOSE i \in keep : \A j \in keep : i <= j
                 last  == CHOOSE i \in keep : \A j \in keep : j <= i
             IN  SubSeq(s, first, last)

\* str.split(): the maximal runs of non-whitespace characters, in order.
RECURSIVE split(_)
split(s) ==
    IF s = <<>> THEN <<>>
    ELSE IF s[1] \in Whitespace THEN split(Tail(s))
    ELSE LET stops == {i \in 1..Len(s) : s[i] \in Whitespace}
             stop  == IF stops = {} THEN Len(s) + 1
                      ELSE CHOOSE i \in stops : \A j \in stops : i <= j
         IN  <<SubSeq(s, 1, stop - 1)>> \o split(SubSeq(s, stop, Len(s)))

\* s[lo:hi] for 0 <= lo, 0 <= hi
slice(s, lo, hi) ==
    LET h == IF hi > Len(s) THEN Len(s) ELSE hi
    IN  IF lo >= h THEN <<>> ELSE SubSeq(s, lo + 1, h)

\* `sub in s` for two strings
contains(s, sub) ==
    \E start \in 0..(Len(s) - Len(sub)) : slice(s, start, start + Len(sub)) = sub

AsciiDigits == {"0", "1", "2", "3", "4", "5", "6", "7", "8", "9"}
DigitChars == AsciiDigits \cup {"sup2"}

\* str.isdigit()
isdigit(s) == s # <<>> /\ \A i \in 1..Len(s) : s[i] \in DigitChars

digit_value(c) ==
    CASE c = "0" -> 0 [] c = "1" -> 1 [] c = "2" -> 2 [] c = "3" -> 3
      [] c = "4" -> 4 [] c = "5" -> 5 [] c = "6" -> 6 [] c = "7" -> 7
      [] c = "8" -> 8 [] c = "9" -> 9

\* int(s) raises ValueError (for a string that passed isdigit)
int_raises(s) == \E i \in 1..Len(s) : s[i] \notin AsciiDigits

\* int(s), where it does not raise
RECURSIVE int(_)
int(s) ==
    IF s = <<>> THEN 0
    ELSE 10 * int(SubSeq(s, 1, Len(s) - 1)) + digit_value(s[Len(s)])

----------------------------------------------------------------------------
(* Functions of main.py *)

\* the prefix cut after three characters
format_phone_number_three(raw_number) ==
    LET prefix == slice(raw_number, 0, 3)
        number == slice(raw_number, 3, Len(raw_number))
    IN  <<"(">> \o prefix \o <<")", " ">> \o number

format_phone_number(raw_number) ==
    LET prefix == slice(raw_number, 0, 2)
        number == slice(raw_number, 2, Len(raw_number))
    IN  <<"(">> \o prefix \o <<")", " ">> \o number

\* phonenumbers is an external library; these are the strings of PhoneInputs
\* that it accepts for region "BR".
ValidPhones == { <<"5","1","9","9","9","9","9","9","9","9","9">> }

is_valid_phone(number) == number \in ValidPhones

\* the characters of the model's alphabet in each class of the pattern
LocalChars == {"a", "b", "c", "x", "y", "0", "1", ".", "_", "%", "+", "-"}
DomainChars == {"a", "b", "c", "x", "y", "0", "1", ".", "-"}
TldChars == {"a", "b", "c", "o", "x", "y"}

\* re.fullmatch(r"^[a-zA-Z0-9._%+-]+@[a-zA-Z0-9.-]+\.[a-zA-Z]{2,7}$", email)
is_valid_email(email) ==
    \E at \in 1..Len(email) : \E dot \in 1..Len(email) :
        /\ email[at] = "@"
        /\ email[dot] = "."
        /\ at > 1
        /\ dot > at + 1
        /\ \A i \in 1..(at - 1) : email[i] \in LocalChars
        /\ \A i \in (at + 1)..(dot - 1) : email[i] \in DomainChars
        /\ Len(email) - dot \in 2..7
        /\ \A i \in (dot + 1)..Len(email) : email[i] \in TldChars

\* the dictionary built by new_contact
contact_of(name, raw_phone, email, favorite) ==
    [Name     |-> title(name),
     Phone    |-> format_phone_number(raw_phone),
     Email    |-> email,
     Favorite |-> title(favorite)]

\* list.insert(0, item) in place of list.append(item)
append_front(list, item) == <<item>> \o list

\* list.append
append(list, item) == list \o <<item>>

\* list.pop() in place of list.pop(i)
pop_last(list, i) == SubSeq(list, 1, Len(list) - 1)

\* list.pop(i); a negative i counts from the end
pop(list, i) ==
    LET k == IF i < 0 THEN i + Len(list) ELSE i
    IN  SubSeq(list, 1, k) \o SubSeq(list, k + 2, Len(list))

\* list[i]; a negative i counts from the end
item(list, i) == list[(IF i < 0 THEN i + Len(list) ELSE i) + 1]

\* -1 <= index < len(contact_list): the check without the lower bound on
\* the typed number
in_range_from_zero(i, list) == -1 <= i /\ i < Len(list)

\* 0 <= index < len(contact_list)
in_range(i, list) == 0 <= i /\ i < Len(list)

\* the name check with only the first part's length tested
name_accepted_first(name) ==
    LET parts == split(strip(name))
    IN  Len(parts) >= 2 /\ Len(parts[1]) >= 2

\* the menu's name check
name_accepted(name) ==
    LET parts == split(strip(name))
    IN  /\ Len(parts) >= 2
        /\ \A p \in 1..Len(slice(parts, 0, 2)) : Len(parts[p]) >= 2

\* the menu's favorite prompt
favorite_or_default(typed) == IF Len(typed) = 3 THEN typed ELSE <<"N", "o">>

\* the assignment without its `if new_x:`
always_set(old, typed, value) == value

\* `if new_x: contact[...] = value`
keep_or_set(old, typed, value) == IF typed # <<>> THEN value ELSE old

\* the filter of list_favorites, as the 0-based indices of the objects kept
is_favorite(contact) == contains(<<"y", "e", "s">>, lower(contact.Favorite))

favorites_of(list) ==
    LET Test(i) == is_favorite(list[i + 1])
    IN  SelectSeq([k \in 1..Len(list) |-> k - 1], Test)

\* showindex=range(1, len(rows) + 1)
showindex(n) == [r \in 1..n |-> r]

\* the rows tabulate prints: the label and the object shown next to it
rows_of(objects) ==
    [r \in 1..Len(objects) |-> [shown |-> showindex(Len(objects))[r], idx |-> objects[r]]]

view_rows(list) == rows_of([k \in 1..Len(list) |-> k - 1])

----------------------------------------------------------------------------
(* Strings typed at the prompts *)

NameInputs == { <<"a","b"," ","c","d">>, <<"a"," ","b","c">> }
PhoneInputs == { <<"5","1","9","9","9","9","9","9","9","9","9">>, <<"5">> }
EmailInputs == { <<"a","@","b",".","c","o">>, <<"a","@","b">> }
FavoriteInputs == { <<"y","e","s">>, <<"a","b","c">>, <<"y">> }
RetryInputs == { <<>>, <<"q">>, <<" ","Q">> }
OtherOptions == { "7" }

digit_char(n) ==
    CASE n = 0 -> "0" [] n = 1 -> "1" [] n = 2 -> "2" [] n = 3 -> "3"
      [] n = 4 -> "4" [] n = 5 -> "5" [] n = 6 -> "6" [] n = 7 -> "7"
      [] n = 8 -> "8" [] n = 9 -> "9"

ChoiceInputs ==
    { <<" ","B">>, <<"x">>, <<"sup2">>, <<" ","1"," ">> }
    \cup { <<digit_char(n)>> : n \in 0..(MaxContacts + 1) }

EditNameInputs == { <<>>, <<" ">>, <<"x","y"," ">> }
EditPhoneInputs == { <<>>, <<" ","5">> }
EditEmailInputs == { <<>>, <<"a","@","b",".","c","o">> }
EditFavoriteInputs == { <<>>, <<"y">> }

----------------------------------------------------------------------------
(* Initial state: contact_list = [] and the loop is about to print the menu *)

Init ==
    /\ pc = "loop"
    /\ contact_list = <<>>
    /\ raw_phones = <<>>
    /\ selected_option = ""
    /\ message = ""
    /\ table = <<>>
    /\ favorites = <<>>
    /\ contact_name = <<>>
    /\ contact_phone = <<>>
    /\ contact_email = <<>>
    /\ contact_favorite = <<>>
    /\ choice = <<>>
    /\ index = 0
    /\ new_name = <<>>
    /\ new_phone = <<>>
    /\ new_email = <<>>
    /\ new_favorite = <<>>

\* the top of the loop prints the menu; the output and the locals of the
\* previous operation are gone
ShowMenu ==
    /\ pc = "loop"
    /\ pc' = "menu"
    /\ message' = "menu"
    /\ selected_option' = ""
    /\ table' = <<>>
    /\ favorites' = <<>>
    /\ contact_name' = <<>>
    /\ contact_phone' = <<>>
    /\ contact_email' = <<>>
    /\ contact_favorite' = <<>>
    /\ choice' = <<>>
    /\ index' = 0
    /\ new_name' = <<>>
    /\ new_phone' = <<>>
    /\ new_email' = <<>>
    /\ new_favorite' = <<>>
    /\ UNCHANGED <<contact_list, raw_phones>>

\* the menu prompt reads an option
Select(option) ==
    /\ pc = "menu"
    /\ selected_option' = option
    /\ UNCHANGED <<contact_list, raw_phones, add_locals, choice, index, edit_locals>>

----------------------------------------------------------------------------
(* The menu *)

\* option 1 up to its first prompt; the model stops adding at MaxContacts
\* contacts
MenuAdd ==
    /\ Len(contact_list) < MaxContacts
    /\ Select("1")
    /\ pc' = "add_name"
    /\ message' = ""
    /\ table' = <<>>
    /\ favorites' = <<>>

\* option 2: view_contacts(contact_list)
MenuView ==
    /\ Select("2")
    /\ pc' = "loop"
    /\ message' = IF contact_list = <<>> THEN "no_contacts" ELSE "table"
    /\ table' = view_rows(contact_list)
    /\ favorites' = <<>>

\* option 3: list_favorites(contact_list)
MenuFavorites ==
    /\ Select("3")
    /\ pc' = "loop"
    /\ favorites' = favorites_of(contact_list)
    /\ message' = IF favorites' = <<>> THEN "no_favorites" ELSE "favorite_contacts"
    /\ table' = rows_of(favorites')

\* option 4: edit_contact up to its first prompt
MenuEdit ==
    /\ Select("4")
    /\ favorites' = <<>>
    /\ IF contact_list = <<>>
       THEN /\ message' = "no_contacts_to_edit"
            /\ table' = <<>>
            /\ pc' = "loop"
       ELSE /\ message' = "table"
            /\ table' = view_rows(contact_list)
            /\ pc' = "edit_choice"

\* option 5: delete_contact up to its prompt
MenuDelete ==
    /\ Select("5")
    /\ favorites' = <<>>
    /\ message' = IF contact_list = <<>> THEN "no_contacts" ELSE "table"
    /\ table' = view_rows(contact_list)
    /\ pc' = "delete_choice"

\* option 6
MenuExit ==
    /\ Select("6")
    /\ pc' = "done"
    /\ message' = "goodbye"
    /\ table' = <<>>
    /\ favorites' = <<>>

\* any other string matches no branch and the loop shows the menu again
MenuOther ==
    /\ \E option \in OtherOptions : Select(option)
    /\ pc' = "loop"
    /\ message' = ""
    /\ table' = <<>>
    /\ favorites' = <<>>

----------------------------------------------------------------------------
(* Option 1: the four prompts, then new_contact *)

NamePromptFrom(inputs) ==
    /\ pc = "add_name"
    /\ \E typed \in inputs :
        /\ contact_name' = typed
        /\ IF name_accepted(typed)
           THEN pc' = "add_phone" /\ message' = ""
           ELSE pc' = "add_name" /\ message' = "name_required"
    /\ UNCHANGED <<contact_list, raw_phones, selected_option, table, favorites,
                   contact_phone, contact_email, contact_favorite,
                   choice, index, edit_locals>>

NamePrompt == NamePromptFrom(NameInputs)

\* one iteration of the phone loop
PhonePrompt ==
    /\ pc = "add_phone"
    /\ \E typed \in PhoneInputs :
        /\ contact_phone' = typed
        /\ IF is_valid_phone(typed)
           THEN pc' = "add_email"
           ELSE \E retry \in RetryInputs :
                    pc' = IF lower(strip(retry)) = <<"q">> THEN "add_email" ELSE "add_phone"
    /\ UNCHANGED <<contact_list, raw_phones, selected_option, message, table, favorites,
                   contact_name, contact_email, contact_favorite,
                   choice, index, edit_locals>>

\* one iteration of the email loop
EmailPrompt ==
    /\ pc = "add_email"
    /\ \E typed \in EmailInputs :
        IF is_valid_email(typed)
        THEN contact_email' = typed /\ pc' = "add_favorite"
        ELSE \E retry \in RetryInputs :
                IF lower(strip(retry)) = <<"q">>
                THEN contact_email' = <<>> /\ pc' = "add_favorite"
                ELSE contact_email' = typed /\ pc' = "add_email"
    /\ UNCHANGED <<contact_list, raw_phones, selected_option, message, table, favorites,
                   contact_name, contact_phone, contact_favorite,
                   choice, index, edit_locals>>

FavoritePrompt ==
    /\ pc = "add_favorite"
    /\ \E typed \in FavoriteInputs : contact_favorite' = favorite_or_default(typed)
    /\ pc' = "add_call"
    /\ UNCHANGED <<contact_list, raw_phones, selected_option, message, table, favorites,
                   contact_name, contact_phone, contact_email,
                   choice, index, edit_locals>>

\* new_contact(contact_list, contact_name, contact_phone, contact_email, contact_favorite)
NewContact ==
    /\ pc = "add_call"
    /\ contact_list' = append(contact_list,
            contact_of(contact_name, contact_phone, contact_email, contact_favorite))
    /\ raw_phones' = Append(raw_phones, contact_phone)
    /\ message' = "added"
    /\ pc' = "loop"
    /\ UNCHANGED <<selected_option, table, favorites, add_locals, choice, index, edit_locals>>

----------------------------------------------------------------------------
(* Option 4: edit_contact *)

\* one iteration of the position loop
EditChoice ==
    /\ pc = "edit_choice"
    /\ \E typed \in ChoiceInputs :
        /\ choice' = strip(typed)
        /\ IF lower(choice') = <<"b">>
           THEN pc' = "loop" /\ message' = "edit_canceled" /\ index' = index
           ELSE IF ~isdigit(choice')
           THEN pc' = "edit_choice" /\ message' = "enter_valid_number" /\ index' = index
           ELSE IF int_raises(choice')
           THEN pc' = "crashed" /\ message' = "ValueError" /\ index' = index
           ELSE /\ index' = int(choice') - 1
                /\ IF in_range(index', contact_list)
                   THEN pc' = "edit_input" /\ message' = "editing"
                   ELSE pc' = "edit_choice" /\ message' = "enter_number_between"
    /\ UNCHANGED <<contact_list, raw_phones, selected_option, table, favorites,
                   add_locals, edit_locals>>

\* the four field prompts, the four conditional assignments to the selected
\* dictionary, and the return
EditFields ==
    /\ pc = "edit_input"
    /\ \E n \in EditNameInputs, p \in EditPhoneInputs,
          e \in EditEmailInputs, f \in EditFavoriteInputs :
        /\ new_name' = strip(n)
        /\ new_phone' = strip(p)
        /\ new_email' = strip(e)
        /\ new_favorite' = strip(f)
    /\ LET contact == item(contact_list, index)
           at == (IF index < 0 THEN index + Len(contact_list) ELSE index) + 1
       IN  /\ contact_list' = [contact_list EXCEPT ![at] =
                [Name     |-> keep_or_set(contact.Name, new_name', new_name'),
                 Phone    |-> keep_or_set(contact.Phone, new_phone', format_phone_number(new_phone')),
                 Email    |-> keep_or_set(contact.Email, new_email', new_email'),
                 Favorite |-> keep_or_set(contact.Favorite, new_favorite', new_favorite')]]
           /\ raw_phones' = [raw_phones EXCEPT ![at] = keep_or_set(@, new_phone', new_phone')]
    /\ message' = "updated"
    /\ pc' = "loop"
    /\ UNCHANGED <<selected_option, table, favorites, add_locals, choice, index>>

----------------------------------------------------------------------------
(* Option 5: delete_contact *)

DeleteChoice ==
    /\ pc = "delete_choice"
    /\ \E typed \in ChoiceInputs :
        /\ choice' = strip(typed)
        /\ IF ~isdigit(choice')
           THEN /\ pc' = "loop" /\ message' = "invalid_contact_number"
                /\ UNCHANGED <<contact_list, raw_phones>>
           ELSE IF int_raises(choice')
           THEN /\ pc' = "crashed" /\ message' = "ValueError"
                /\ UNCHANGED <<contact_list, raw_phones>>
           ELSE LET i == int(choice') - 1
                IN  IF in_range(i, contact_list)
                    THEN /\ contact_list' = pop(contact_list, i)
                         /\ raw_phones' = pop(raw_phones, i)
                         /\ pc' = "loop" /\ message' = "removed"
                    ELSE /\ pc' = "loop" /\ message' = "invalid_contact_number"
                         /\ UNCHANGED <<contact_list, raw_phones>>
    /\ UNCHANGED <<selected_option, table, favorites, add_locals, index, edit_locals>>

----------------------------------------------------------------------------

Next ==
    \/ ShowMenu
    \/ MenuAdd
    \/ MenuView
    \/ MenuFavorites
    \/ MenuEdit
    \/ MenuDelete
    \/ MenuExit
    \/ MenuOther
    \/ NamePrompt
    \/ PhonePrompt
    \/ EmailPrompt
    \/ FavoritePrompt
    \/ NewContact
    \/ EditChoice
    \/ EditFields
    \/ DeleteChoice

Spec == Init /\ [][Next]_vars

----------------------------------------------------------------------------
(* The name prompt over every string of at most MaxNameLen characters:     *)
(* option 1 chosen on the empty list, then the add flow to its end.        *)

NameChars == {"a", " "}
AllNames == UNION { [1..n -> NameChars] : n \in 0..MaxNameLen }

InitName ==
    /\ pc = "add_name"
    /\ contact_list = <<>>
    /\ raw_phones = <<>>
    /\ selected_option = "1"
    /\ message = ""
    /\ table = <<>>
    /\ favorites = <<>>
    /\ contact_name = <<>>
    /\ contact_phone = <<>>
    /\ contact_email = <<>>
    /\ contact_favorite = <<>>
    /\ choice = <<>>
    /\ index = 0
    /\ new_name = <<>>
    /\ new_phone = <<>>
    /\ new_email = <<>>
    /\ new_favorite = <<>>

NamePromptAll == NamePromptFrom(AllNames)

NextName ==
    \/ NamePromptAll
    \/ PhonePrompt
    \/ EmailPrompt
    \/ FavoritePrompt
    \/ NewContact

SpecName == InitName /\ [][NextName]_vars

----------------------------------------------------------------------------
(* Properties *)

\* the position typed at the prompt, when it is a number
TypedNumber(s) == isdigit(s) /\ ~int_raises(s)

\* C1: a number typed at the edit or delete prompt that is outside
\* 1..len(contact_list) is rejected with the advisory message, no contact is
\* selected, and contact_list is left exactly as it was.
OutOfRangeRejected ==
    [][ ( /\ pc \in {"edit_choice", "delete_choice"}
          /\ TypedNumber(choice')
          /\ int(choice') \notin 1..Len(contact_list) )
        => ( /\ contact_list' = contact_list
             /\ pc' # "edit_input"
             /\ message' = IF pc = "edit_choice" THEN "enter_number_between"
                           ELSE "invalid_contact_number" ) ]_vars

\* a delete at position len+1 of a non-empty list has just been rejected
OutOfRangeRejectedWitness ==
    /\ pc = "loop"
    /\ selected_option = "5"
    /\ message = "invalid_contact_number"
    /\ TypedNumber(choice)
    /\ contact_list # <<>>
    /\ int(choice) = Len(contact_list) + 1

\* C2: delete at position k of a list of length N, 1 <= k <= N, leaves N-1
\* contacts: those formerly at 1..k-1 where they were, and each one formerly
\* at j > k at j-1.
DeleteShiftsDown ==
    [][ ( /\ pc = "delete_choice"
          /\ TypedNumber(choice')
          /\ int(choice') \in 1..Len(contact_list) )
        => LET k == int(choice')
               N == Len(contact_list)
           IN  /\ Len(contact_list') = N - 1
               /\ \A j \in 1..(k - 1) : contact_list'[j] = contact_list[j]
               /\ \A j \in (k + 1)..N : contact_list'[j - 1] = contact_list[j] ]_vars

\* position 1 has just been deleted and a contact has moved down to it
DeleteShiftsDownWitness ==
    /\ pc = "loop"
    /\ message = "removed"
    /\ choice = <<"1">>
    /\ Len(contact_list) >= 1

\* C3: new_contact makes the list one longer, puts the new dictionary last and
\* leaves every earlier contact where it was; it always does so, also for a
\* duplicate.
AddAppendsLast ==
    [][ pc = "add_call"
        => LET N == Len(contact_list)
           IN  /\ Len(contact_list') = N + 1
               /\ SubSeq(contact_list', 1, N) = contact_list
               /\ contact_list'[N + 1].Name = title(contact_name)
               /\ contact_list'[N + 1].Email = contact_email
               /\ contact_list'[N + 1].Favorite = title(contact_favorite)
               /\ message' = "added" ]_vars

\* a duplicate of the first contact has just been added after it
AddAppendsLastWitness ==
    /\ pc = "loop"
    /\ message = "added"
    /\ Len(contact_list) = 2
    /\ contact_list[1] = contact_list[2]

\* C4: the favorites listing is exactly the contacts whose favorite field
\* equals "yes" case-insensitively, in list order.
FavoritesAreExactlyYes ==
    (pc = "loop" /\ selected_option = "3")
    => LET Yes(i) == lower(contact_list[i + 1].Favorite) = <<"y", "e", "s">>
       IN  favorites = SelectSeq([k \in 1..Len(contact_list) |-> k - 1], Yes)

\* C5: an edit changes no field whose input was empty after stripping, no
\* other contact, and neither the length nor the order of the list.
EditKeepsOmitted ==
    [][ pc = "edit_input"
        => LET k == index + 1
               old == contact_list[k]
               new == contact_list'[k]
           IN  /\ Len(contact_list') = Len(contact_list)
               /\ \A j \in 1..Len(contact_list) : j # k => contact_list'[j] = contact_list[j]
               /\ new_name' = <<>> => new.Name = old.Name
               /\ new_phone' = <<>> => new.Phone = old.Phone
               /\ new_email' = <<>> => new.Email = old.Email
               /\ new_favorite' = <<>> => new.Favorite = old.Favorite ]_vars

\* an edit with the name omitted and a favorite given has just been applied
\* to one of two contacts
EditKeepsOmittedWitness ==
    /\ pc = "loop"
    /\ message = "updated"
    /\ new_name = <<>>
    /\ new_favorite # <<>>
    /\ Len(contact_list) = 2

\* C6: every stored favorite field is "yes" or "no" case-insensitively.
FavoriteIsYesOrNo ==
    \A i \in 1..Len(contact_list) :
        lower(contact_list[i].Favorite) \in { <<"y", "e", "s">>, <<"n", "o">> }

\* C7: every stored phone is "(" + XX + ") " + REST of the string last given
\* to the contact as its phone, XX its first two characters (all of it when
\* shorter) and REST what follows.
PhoneIsFormattedRaw ==
    /\ Len(raw_phones) = Len(contact_list)
    /\ \A i \in 1..Len(contact_list) :
        LET raw  == raw_phones[i]
            XX   == IF Len(raw) < 2 THEN raw ELSE <<raw[1], raw[2]>>
            REST == IF Len(raw) < 2 THEN <<>> ELSE SubSeq(raw, 3, Len(raw))
        IN  contact_list[i].Phone = <<"(">> \o XX \o <<")", " ">> \o REST

\* an edit has just given a one-character phone, which is_valid_phone
\* rejects, to a contact
PhoneIsFormattedRawWitness ==
    /\ pc = "loop"
    /\ message = "updated"
    /\ Len(new_phone) = 1
    /\ ~is_valid_phone(new_phone)
    /\ raw_phones[index + 1] = new_phone

\* the parts of a name as the claim counts them
NameParts(name) == split(name)

\* the add flow is past the name prompt with this name
NamePassed == pc \in {"add_phone", "add_email", "add_favorite", "add_call"}

\* C8 as stated: a name passes the prompt only if it has at least two parts
\* and every part has at least 2 characters.
NameEveryPartTwoChars ==
    NamePassed =>
        /\ Len(NameParts(contact_name)) >= 2
        /\ \A p \in 1..Len(NameParts(contact_name)) : Len(NameParts(contact_name)[p]) >= 2

\* at least two parts, and the first two of at least 2 characters each
FirstTwoPartsOK(name) ==
    /\ Len(NameParts(name)) >= 2
    /\ Len(NameParts(name)[1]) >= 2
    /\ Len(NameParts(name)[2]) >= 2

\* C8 as amended: a name passes the prompt, and reaches the list through add,
\* only if it has at least two parts and its first two parts have at least 2
\* characters each; any other name is asked for again.
NameFirstTwoPartsTwoChars ==
    /\ NamePassed => FirstTwoPartsOK(contact_name)
    /\ (pc = "add_name" /\ message = "name_required") => ~FirstTwoPartsOK(contact_name)
    /\ \A i \in 1..Len(contact_list) : FirstTwoPartsOK(contact_list[i].Name)

\* a name with a one-character third part has been added
NameFirstTwoPartsTwoCharsWitness ==
    /\ pc = "loop"
    /\ message = "added"
    /\ Len(contact_list) = 1
    /\ Len(NameParts(contact_list[1].Name)) = 3
    /\ Len(NameParts(contact_list[1].Name)[3]) = 1

\* C9: every number printed next to a contact, in either listing, is the
\* contact's 0-based index in contact_list plus one.
ShownIsIndexPlusOne ==
    \A r \in 1..Len(table) : table[r].shown = table[r].idx + 1

\* C10: no string typed at the edit or delete position prompt ends the
\* process, and the menu loop ends only with option 6.
PositionPromptNeverFatal ==
    /\ pc # "crashed"
    /\ pc = "done" => selected_option = "6"

====
